---- MODULE Spec2Model ----
(***************************************************************************)
(* Model of the reconciliation core of hyperliquid-trade-recon:            *)
(* backend/services (HyperliquidClient and ReconciliationService).         *)
(*                                                                         *)
(* Time is an integer count of ticks.  One tick stands for the code's      *)
(* millisecond (the unit of FillResponse.Time, of the pagination cursor     *)
(* and of Trade.Time.UnixMilli()).  time.Hour and 24*time.Hour are scaled   *)
(* down to a few ticks, and config.MaxTradesPerBatch to a few fills, so    *)
(* that the boundaries the code tests are inside the explored range.       *)
(* Prices, sizes and P&L are integers where the code uses float64.         *)
(* A string the code formats or compares character by character (a coin,   *)
(* a side) is a sequence of one-character strings.                          *)
(***************************************************************************)
EXTENDS Integers, Sequences, FiniteSets, TLC

(* time.Hour (the freshness threshold), scaled to ticks *)
Hour == 2

(* 24 * time.Hour, scaled to ticks *)
Day == 2

(* config.MaxTradesPerBatch, scaled from 2000 *)
MaxTradesPerBatch == 2

(* Go's zero time.Time (January 1, year 1 UTC), which IsZero tests: a tick far
   before the epoch, out of the clock's range *)
ZeroTime == -1000000

(* the wall clock runs from 0 to MaxClock *)
MaxClock == 3

(* the venue holds at most MaxLedger fills *)
MaxLedger == 2

Accounts == {"0xa", "0xb"}

BTC == <<"B", "T", "C">>

Coins == {BTC}

Buy == <<"B">>

Sell == <<"A">>

Sides == {Buy, Sell}

Template(user, side, px) == [user |-> user, coin |-> BTC, side |-> side, px |-> px]

(* What one run draws its inputs from: the addresses the handler is called with,
   the days it is called with, and the fills the venue can record.  OneAccount
   (Spec): one account whose fills include the same buy at two prices and a
   sell.  TwoAccounts (SpecTwo): two accounts with one kind of fill each.
   zone is the offset of the process's time zone from UTC, in ticks; arrange is
   the order in which the venue lists the fills of one response. *)
OneAccount ==
  [users |-> {"0xa"}, days |-> {1, 2}, zone |-> 0, arrange |-> "oldestFirst",
   fills |-> {Template("0xa", Buy, "1"), Template("0xa", Buy, "2"), Template("0xa", Sell, "1")}]

TwoAccounts ==
  [users |-> {"0xa", "0xb"}, days |-> {1}, zone |-> 0, arrange |-> "oldestFirst",
   fills |-> {Template("0xa", Buy, "1"), Template("0xb", Sell, "2")}]

VARIABLES
  scope,          \* what this run draws its inputs from (fixed from Init on)
  clock,          \* time.Now(), in ticks
  ledger,         \* the venue: the fills it holds, oldest first
  accountCache,   \* rs.accountCache: address -> AccountCache (exists = FALSE: no entry)
  dailyPnL,       \* rs.dailyPnL: date -> DailyPnL
  selected,       \* the trade list the last calculateDailyPnLFromTrades call was given
  last,           \* the last handler call: its inputs, its branch, what it fetched, the state before it
  mu,             \* rs.mu: the goroutine holding the write lock, the goroutines holding a read lock,
                  \* the goroutine that has asked for the write lock and waits for the readers to leave
  pc              \* goroutine -> where it is in the call it makes, and the call's locals

vars == <<scope, clock, ledger, accountCache, dailyPnL, selected, last, mu, pc>>

(* the goroutines net/http serves requests on *)
Goroutines == {"g1", "g2", "g3"}

(* rs.mu with no holder *)
Unlocked == [writer |-> "none", readers |-> {}, pending |-> "none"]

(* a goroutine that is in no call *)
NoCall == [at |-> "idle"]

(* the handler's steps of the sequential specifications are taken with rs.mu
   free and held by nobody else for the whole step *)
Sequential == mu = Unlocked /\ pc = [g \in Goroutines |-> NoCall]

Min(a, b) == IF a < b THEN a ELSE b

Range(s) == {s[i] : i \in 1..Len(s)}

----------------------------------------------------------------------------
(* HyperliquidClient *)

(* strconv.ParseFloat succeeds on a decimal number *)
ParseFloatOk(s) == s \in {"1", "2"}

ParseFloat(s) == CASE s = "1" -> 1 [] s = "2" -> 2 [] OTHER -> 0

(* convertFillToTrade: a fill whose px or sz does not parse is an error *)
convertFillOk(fill) == ParseFloatOk(fill.px) /\ ParseFloatOk(fill.sz)

convertFillToTrade(fill) ==
  [time  |-> fill.time,
   coin  |-> fill.coin,
   side  |-> fill.side,
   price |-> ParseFloat(fill.px),
   size  |-> ParseFloat(fill.sz),
   value |-> ParseFloat(fill.px) * ParseFloat(fill.sz)]

(* a loop that gives the batch up at the first fill that does not convert *)
RECURSIVE convertBatchUntilError(_)
convertBatchUntilError(fills) ==
  IF fills = <<>> \/ ~convertFillOk(Head(fills)) THEN <<>>
  ELSE <<convertFillToTrade(Head(fills))>> \o convertBatchUntilError(Tail(fills))

(* the loop of lines 89-96: the fills that convert, in the batch's order *)
RECURSIVE convertBatch(_)
convertBatch(fills) ==
  IF fills = <<>> THEN <<>>
  ELSE (IF convertFillOk(Head(fills)) THEN <<convertFillToTrade(Head(fills))>> ELSE <<>>)
       \o convertBatch(Tail(fills))

Reverse(s) == [i \in 1..Len(s) |-> s[Len(s) + 1 - i]]

(* fetchBatch against the venue: the user's fills with startTime <= time <= endTime,
   the oldest MaxTradesPerBatch of them at most, listed in the response oldest
   first or newest first as the venue arranges them; fetchBatch returns the
   decoded response as it is *)
fetchBatch(address, startTime, endTime) ==
  LET inRange == SelectSeq(ledger, LAMBDA f : f.user = address /\ f.time >= startTime /\ f.time <= endTime)
      page    == SubSeq(inRange, 1, Min(Len(inRange), MaxTradesPerBatch))
  IN  IF scope.arrange = "newestFirst" THEN Reverse(page) ELSE page

(* a cursor that skips one millisecond more *)
NextStartTimePlusTwo(fills) == fills[Len(fills)].time + 2

(* a loop that sleeps before every request *)
PacingDelaysAlways(batchCount) == 1

(* lines 72-74: the calls of time.Sleep(RateLimitDelay) made before the request
   of the pass that starts with batchCount batches fetched *)
PacingDelays(batchCount) == IF batchCount > 0 THEN 1 ELSE 0

(* a cursor taken from the first fill of the batch *)
NextStartTimeOfFirst(fills) == fills[1].time + 1

(* a cursor taken from the last fill of the batch that converts, and from the
   last fill when none does *)
NextStartTimeOfParsed(fills) ==
  LET good == SelectSeq(fills, LAMBDA f : convertFillOk(f))
  IN  IF good = <<>> THEN fills[Len(fills)].time + 1 ELSE good[Len(good)].time + 1

(* a failed request that ends the loop as an empty batch does: the trades of
   the batches before it are returned with no error *)
FetchCutShort(allTrades, sent) == [ok |-> TRUE, trades |-> allTrades, requests |-> sent]

(* lines 78-80: return nil, fmt.Errorf(...): the error, and no trade of the
   batches fetched before *)
FetchFailed(allTrades, sent) == [ok |-> FALSE, trades |-> <<>>, requests |-> sent]

(* the start time of the request after a full batch (lines 105-106) *)
NextStartTime(fills) == fills[Len(fills)].time + 1

(* the pagination loop of FetchTradesInRange; the request numbered failAt fails
   (failAt = 0: none does).  requests lists every fetchBatch call made: its
   startTime and endTime, the pacing delays slept before it in its pass of
   the loop, whether it returned without error, and the fills it returned. *)
RECURSIVE Paginate(_, _, _, _, _, _, _)
Paginate(address, currentStartTime, endTime, batchCount, allTrades, requests, failAt) ==
  LET n     == batchCount + 1
      fills == fetchBatch(address, currentStartTime, endTime)
      sent  == Append(requests, [startTime |-> currentStartTime, endTime |-> endTime,
                                 delays    |-> PacingDelays(batchCount),
                                 ok        |-> n # failAt,
                                 fills     |-> IF n = failAt THEN <<>> ELSE fills])
      all   == allTrades \o convertBatch(fills)
  IN  IF n = failAt
      THEN FetchFailed(allTrades, sent)
      ELSE IF Len(fills) = 0
      THEN [ok |-> TRUE, trades |-> allTrades, requests |-> sent]
      ELSE IF Len(fills) < MaxTradesPerBatch
      THEN [ok |-> TRUE, trades |-> all, requests |-> sent]
      ELSE Paginate(address, NextStartTime(fills), endTime, n, all, sent, failAt)

(* a fetch that asks for one page and no more *)
FetchTradesInRangeOnePage(address, start, end, failAt) ==
  LET fills == fetchBatch(address, start, end)
  IN  [ok       |-> failAt # 1,
       trades   |-> IF failAt = 1 THEN <<>> ELSE convertBatch(fills),
       requests |-> <<[startTime |-> start, endTime |-> end, delays |-> PacingDelays(0),
                       ok |-> failAt # 1, fills |-> IF failAt = 1 THEN <<>> ELSE fills]>>]

FetchTradesInRange(address, start, end, failAt) ==
  Paginate(address, start, end, 0, <<>>, <<>>, failAt)

(* FetchTrades reads the clock itself: now2 is its own time.Now() *)
FullWindow(days, now2) == [start |-> now2 - days * Day, end |-> now2]

FetchTrades(address, days, now2, failAt) ==
  FetchTradesInRange(address, FullWindow(days, now2).start, FullWindow(days, now2).end, failAt)

----------------------------------------------------------------------------
(* ReconciliationService *)

NoCache == [exists |-> FALSE, trades |-> <<>>, lastFetchTime |-> ZeroTime, cachedDays |-> 0]

IsZero(t) == t = ZeroTime

(* a freshness test that still takes a cache fetched exactly one hour ago *)
IsFreshWithinHour(cache, now) == now - cache.lastFetchTime <= Hour

(* timeSinceLastFetch < time.Hour *)
IsFresh(cache, now) == now - cache.lastFetchTime < Hour

(* a Case 1 that does not compare days with cachedDays *)
Case1AnyDays(cache, days, now) ==
  cache.exists /\ ~IsZero(cache.lastFetchTime) /\ IsFresh(cache, now)

(* the condition of Case 1 (lines 217 and 221) *)
Case1Applies(cache, days, now) ==
  cache.exists /\ ~IsZero(cache.lastFetchTime) /\ days <= cache.cachedDays /\ IsFresh(cache, now)

(* the condition of Case 2 (lines 217 and 254) *)
Case2Applies(cache, days, now) ==
  cache.exists /\ ~IsZero(cache.lastFetchTime) /\ days = cache.cachedDays /\ IsFresh(cache, now)

(* a window that starts just after the stored lastFetchTime *)
IncrementalWindowAfter(cache, now) == [start |-> cache.lastFetchTime + 1, end |-> now]

(* the window of the incremental fetch (lines 225 and 258) *)
IncrementalWindow(cache, now) == [start |-> cache.lastFetchTime, end |-> now]

(* a filter that drops the trade made exactly at the cutoff *)
filterTradesAfter(trades, cutoffTime) ==
  SelectSeq(trades, LAMBDA trade : trade.time > cutoffTime)

(* a filter that returns the kept trades newest first *)
RECURSIVE filterTradesNewestFirst(_, _)
filterTradesNewestFirst(trades, cutoffTime) ==
  IF trades = <<>> THEN <<>>
  ELSE filterTradesNewestFirst(Tail(trades), cutoffTime)
       \o (IF Head(trades).time >= cutoffTime THEN <<Head(trades)>> ELSE <<>>)

(* filterTradesByTime *)
filterTradesByTime(trades, cutoffTime) ==
  SelectSeq(trades, LAMBDA trade : trade.time > cutoffTime \/ trade.time = cutoffTime)

(* a key that tells trades of one identity apart by their price *)
TradeKeyByPrice(trade) ==
  <<ToString(trade.time), "_">> \o trade.coin \o <<"_">> \o trade.side \o <<"_", ToString(trade.price)>>

(* the part of a text before its first separator *)
RECURSIVE UpToSeparator(_)
UpToSeparator(text) ==
  IF text = <<>> \/ Head(text) = "_" THEN <<>> ELSE <<Head(text)>> \o UpToSeparator(Tail(text))

(* a key that takes the coin's name up to its first separator only *)
TradeKeyShortCoin(trade) ==
  <<ToString(trade.time), "_">> \o UpToSeparator(trade.coin) \o <<"_">> \o trade.side

(* fmt.Sprintf("%d_%s_%s", trade.Time.UnixMilli(), trade.Coin, trade.Side) *)
TradeKey(trade) == <<ToString(trade.time), "_">> \o trade.coin \o <<"_">> \o trade.side

(* a tradeMap in which the first trade that has a key keeps it *)
TradeMapKeepFirst(existing, new) ==
  LET all  == existing \o new
      keys == {TradeKey(all[i]) : i \in 1..Len(all)}
      firstIndex(k) == CHOOSE i \in 1..Len(all) :
                         /\ TradeKey(all[i]) = k
                         /\ \A j \in 1..(i - 1) : TradeKey(all[j]) # k
  IN  [k \in keys |-> all[firstIndex(k)]]

(* tradeMap after the two loops of mergeTrades: for every key, the last trade
   of existing followed by new that has it *)
TradeMap(existing, new) ==
  LET all  == existing \o new
      keys == {TradeKey(all[i]) : i \in 1..Len(all)}
      lastIndex(k) == CHOOSE i \in 1..Len(all) :
                        /\ TradeKey(all[i]) = k
                        /\ \A j \in (i+1)..Len(all) : TradeKey(all[j]) # k
  IN  [k \in keys |-> all[lastIndex(k)]]

(* the orders the map's range leaves the trades in when nothing sorts them *)
RECURSIVE AnyOrder(_)
AnyOrder(S) ==
  IF S = {} THEN {<<>>}
  ELSE UNION {{<<x>> \o s : s \in AnyOrder(S \ {x})} : x \in S}

(* every order sort.Slice can leave a set of trades in: ascending by time, trades
   of equal time in any order (the map is ranged over in any order and the sort
   is not stable) *)
RECURSIVE SortedByTime(_)
SortedByTime(S) ==
  IF S = {} THEN {<<>>}
  ELSE LET first == {x \in S : \A y \in S : x.time <= y.time}
       IN  UNION {{<<x>> \o s : s \in SortedByTime(S \ {x})} : x \in first}

(* mergeTrades: the set of lists it can return *)
mergeTrades(existing, new) ==
  LET tradeMap == TradeMap(existing, new)
  IN  SortedByTime({tradeMap[k] : k \in DOMAIN tradeMap})

(* a cache that keeps the new trades in place of the ones it had *)
TradesAfterIncrementalReplaced(cached, newTrades) ==
  IF Len(newTrades) > 0 THEN {newTrades} ELSE {cached}

(* lines 230-235: merge only when the fetch returned something *)
TradesAfterIncremental(cached, newTrades) ==
  IF Len(newTrades) > 0 THEN mergeTrades(cached, newTrades) ELSE {cached}

(* trade.Time.Format("2006-01-02"): trade.Time is time.UnixMilli(fill.Time), a
   time in the process's zone (time.Local), and Format names the day of that
   zone's calendar, here by its number since the epoch *)
DateKey(t) == (t + scope.zone) \div Day

(* calculatePnLForDay *)
RECURSIVE SumValue(_)
SumValue(trades) == IF trades = <<>> THEN 0 ELSE Head(trades).value + SumValue(Tail(trades))

RECURSIVE SumOver(_, _)
SumOver(S, f) == IF S = {} THEN 0 ELSE LET x == CHOOSE y \in S : TRUE IN f[x] + SumOver(S \ {x}, f)

(* a day P&L that takes buys as income and sells as cost *)
calculatePnLBuysMinusSells(trades) ==
  LET coins == {trades[i].coin : i \in 1..Len(trades)}
      BuyValue(c)  == SumValue(SelectSeq(trades, LAMBDA t : t.coin = c /\ t.side = Buy))
      SellValue(c) == SumValue(SelectSeq(trades, LAMBDA t : t.coin = c /\ t.side = Sell))
  IN  SumOver(coins, [c \in coins |-> BuyValue(c) - SellValue(c)])

(* a day P&L that takes every trade that is not a buy for a sell *)
calculatePnLElseSell(trades) ==
  LET coins == {trades[i].coin : i \in 1..Len(trades)}
      BuyValue(c)  == SumValue(SelectSeq(trades, LAMBDA t : t.coin = c /\ t.side = Buy))
      SellValue(c) == SumValue(SelectSeq(trades, LAMBDA t : t.coin = c /\ t.side # Buy))
  IN  SumOver(coins, [c \in coins |-> SellValue(c) - BuyValue(c)])

calculatePnLForDay(trades) ==
  LET coins == {trades[i].coin : i \in 1..Len(trades)}
      BuyValue(c)  == SumValue(SelectSeq(trades, LAMBDA t : t.coin = c /\ t.side = Buy))
      SellValue(c) == SumValue(SelectSeq(trades, LAMBDA t : t.coin = c /\ t.side = Sell))
  IN  SumOver(coins, [c \in coins |-> SellValue(c) - BuyValue(c)])

(* a grouping that puts a trade under its date and every later date *)
DayTradesUpTo(trades, d) == SelectSeq(trades, LAMBDA t : DateKey(t.time) <= d)

(* tradesByDate (lines 348-353): the dates, and the trades of one date *)
TradeDates(trades) == {DateKey(trades[i].time) : i \in 1..Len(trades)}

DayTrades(trades, d) == SelectSeq(trades, LAMBDA t : DateKey(t.time) = d)

(* the DailyPnL record of one date (lines 359-364) *)
DayRecord(trades, d) ==
  [date       |-> d,
   tradeCount |-> Len(DayTrades(trades, d)),
   dailyPnL   |-> calculatePnLForDay(DayTrades(trades, d))]

(* an aggregation that writes the new dates into the table it finds *)
calculateDailyPnLPatched(trades) ==
  [d \in DOMAIN dailyPnL \cup TradeDates(trades) |->
     IF d \in TradeDates(trades) THEN DayRecord(trades, d) ELSE dailyPnL[d]]

(* calculateDailyPnLFromTrades: the table it builds, starting from an empty map
   (line 356) *)
calculateDailyPnLFromTrades(trades) ==
  [d \in TradeDates(trades) |-> DayRecord(trades, d)]

(* a full fetch that writes the entry before it looks at the error *)
EntryAfterFullUnchecked(cache, res, now, days) ==
  [exists |-> TRUE, trades |-> res.trades, lastFetchTime |-> now, cachedDays |-> days]

(* the cache entry a full fetch leaves (lines 284-294) *)
EntryAfterFull(cache, res, now, days) ==
  IF ~res.ok THEN cache
  ELSE [exists |-> TRUE, trades |-> res.trades, lastFetchTime |-> now, cachedDays |-> days]

(* an incremental fetch that takes the requested days as the cache's *)
EntryAfterIncrementalShrunk(cache, days, res, merged, now) ==
  IF ~res.ok THEN cache
  ELSE [cache EXCEPT !.trades = merged, !.lastFetchTime = now, !.cachedDays = days]

(* the cache entry an incremental fetch leaves (lines 225-238); days is the
   handler's argument, which the entry keeps no trace of *)
EntryAfterIncremental(cache, days, res, merged, now) ==
  IF ~res.ok THEN cache
  ELSE [cache EXCEPT !.trades = merged, !.lastFetchTime = now]

(* a table computed before the fetch's error is looked at *)
TableAfterUnchecked(table, res, trades) == calculateDailyPnLFromTrades(trades)

(* rs.dailyPnL after the handler: an error return (lines 226-228, 284-287)
   comes before calculateDailyPnLFromTrades is called *)
TableAfter(table, res, trades) ==
  IF ~res.ok THEN table ELSE calculateDailyPnLFromTrades(trades)

(* a store that holds the written account's entry and no other *)
StoreOnlyEntry(store, address, entry) ==
  [a \in DOMAIN store |-> IF a = address THEN entry ELSE NoCache]

(* the write to rs.accountCache: the entry of address is set (lines 289-293) or
   changed through its pointer (lines 214, 232, 237); the map's other keys are
   not touched *)
StoreEntry(store, address, entry) == [store EXCEPT ![address] = entry]

(* what last holds when the last step was no handler call *)
Idle ==
  [op |-> "none", address |-> "", days |-> 0, now |-> 0, now2 |-> 0, branch |-> "none",
   sourceOk |-> TRUE, ret |-> "none", fetched |-> <<>>, requests |-> <<>>,
   pre |-> [exists |-> FALSE, lastFetchTime |-> ZeroTime, cachedDays |-> 0]]

(* what last holds after FetchAndReconcile(address, days): the clock readings
   now (line 215) and now2 (line 52, the same as now on the incremental
   branches), the branch taken, what the Trade Source was asked and returned,
   the handler's return value, and the address's cache entry as the handler found
   it (line 214), without its trades *)
Record(address, days, now, now2, branch, res) ==
  [op |-> "reconcile", address |-> address, days |-> days, now |-> now, now2 |-> now2,
   branch |-> branch, sourceOk |-> res.ok, ret |-> IF res.ok THEN "nil" ELSE "err",
   fetched |-> res.trades, requests |-> res.requests,
   pre |-> [exists        |-> accountCache[address].exists,
            lastFetchTime |-> accountCache[address].lastFetchTime,
            cachedDays    |-> accountCache[address].cachedDays]]

(* Case 1 (lines 220-251) *)
Case1(address, days, now, failAt) ==
  LET cache  == accountCache[address]
      window == IncrementalWindow(cache, now)
      res    == FetchTradesInRange(address, window.start, window.end, failAt)
  IN  /\ last' = Record(address, days, now, now, "incremental", res)
      /\ clock' = clock
      /\ IF ~res.ok
         THEN /\ dailyPnL' = TableAfter(dailyPnL, res, res.trades)
              /\ UNCHANGED <<accountCache, selected>>
         ELSE \E merged \in TradesAfterIncremental(cache.trades, res.trades) :
                LET filteredTrades == filterTradesByTime(merged, now - days * Day)
                IN  /\ accountCache' = StoreEntry(accountCache, address,
                                          EntryAfterIncremental(cache, days, res, merged, now))
                    /\ dailyPnL' = TableAfter(dailyPnL, res, filteredTrades)
                    /\ selected' = filteredTrades

(* Case 2 (lines 253-278) *)
Case2(address, days, now, failAt) ==
  LET cache  == accountCache[address]
      window == IncrementalWindow(cache, now)
      res    == FetchTradesInRange(address, window.start, window.end, failAt)
  IN  /\ last' = Record(address, days, now, now, "same", res)
      /\ clock' = clock
      /\ IF ~res.ok
         THEN /\ dailyPnL' = TableAfter(dailyPnL, res, res.trades)
              /\ UNCHANGED <<accountCache, selected>>
         ELSE \E merged \in TradesAfterIncremental(cache.trades, res.trades) :
                /\ accountCache' = StoreEntry(accountCache, address,
                                      EntryAfterIncremental(cache, days, res, merged, now))
                /\ dailyPnL' = TableAfter(dailyPnL, res, merged)
                /\ selected' = merged

(* Case 3 (lines 281-300); FetchTrades reads the clock again, at now2 >= now *)
Case3(address, days, now, now2, failAt) ==
  LET cache == accountCache[address]
      res   == FetchTrades(address, days, now2, failAt)
  IN  /\ last' = Record(address, days, now, now2, "full", res)
      /\ clock' = now2
      /\ accountCache' = StoreEntry(accountCache, address, EntryAfterFull(cache, res, now, days))
      /\ dailyPnL' = TableAfter(dailyPnL, res, res.trades)
      /\ selected' = IF ~res.ok THEN selected ELSE res.trades

(* FetchAndReconcile, the whole handler under rs.mu *)
FetchAndReconcile(address, days, failAt, elapsed) ==
  LET cache == accountCache[address]
      now   == clock
  IN  /\ clock + elapsed <= MaxClock
      /\ UNCHANGED <<scope, ledger, mu, pc>>
      /\ IF Case1Applies(cache, days, now)
         THEN elapsed = 0 /\ Case1(address, days, now, failAt)
         ELSE IF Case2Applies(cache, days, now)
         THEN elapsed = 0 /\ Case2(address, days, now, failAt)
         ELSE Case3(address, days, now, now + elapsed, failAt)

----------------------------------------------------------------------------
(* the environment: time passes, the venue records fills *)

Tick ==
  /\ clock < MaxClock
  /\ clock' = clock + 1
  /\ last' = Idle
  /\ UNCHANGED <<scope, ledger, accountCache, dailyPnL, selected, mu, pc>>

(* the fill the venue reports for a trade of kind f made at time t; its size is
   "1" unless the kind names one *)
Fill(f, t) ==
  [user |-> f.user, time |-> t, coin |-> f.coin, side |-> f.side, px |-> f.px,
   sz |-> IF "sz" \in DOMAIN f THEN f.sz ELSE "1"]

VenueFill(f) ==
  /\ Len(ledger) < MaxLedger
  /\ ledger' = Append(ledger, Fill(f, clock))
  /\ last' = Idle
  /\ UNCHANGED <<scope, clock, accountCache, dailyPnL, selected, mu, pc>>

(* NewReconciliationService: empty maps; the venue has recorded nothing yet *)
Started ==
  /\ clock = 0
  /\ ledger = <<>>
  /\ accountCache = [a \in Accounts |-> NoCache]
  /\ dailyPnL = <<>>
  /\ selected = <<>>
  /\ last = Idle
  /\ Sequential

Init == scope = OneAccount /\ Started

InitTwo == scope = TwoAccounts /\ Started

(* a request can fail at any batch the loop can reach *)
FailChoices == 0..(MaxLedger \div MaxTradesPerBatch + 1)

Next ==
  \/ Tick
  \/ \E f \in scope.fills : VenueFill(f)
  \/ \E address \in scope.users, days \in scope.days, failAt \in FailChoices, elapsed \in {0, 1} :
       FetchAndReconcile(address, days, failAt, elapsed)

Spec == Init /\ [][Next]_vars

SpecTwo == InitTwo /\ [][Next]_vars

----------------------------------------------------------------------------
(* FetchTradesInRange on its own, against a venue that already holds its fills *)

(* fills are timestamped 0..MaxFillTime *)
MaxFillTime == 2

(* the venue holds at most MaxFetchFills fills *)
MaxFetchFills == 3

FetchOnly ==
  [users |-> {"0xa"}, days |-> {}, zone |-> 0, arrange |-> "oldestFirst",
   fills |-> {Template("0xa", Buy, "1"), Template("0xa", Sell, "1"), Template("0xa", Buy, "x"),
              [user |-> "0xa", coin |-> BTC, side |-> Sell, px |-> "1", sz |-> "x"]}]

(* the ledgers of at most n fills, oldest first *)
RECURSIVE Ledgers(_)
Ledgers(n) ==
  IF n = 0 THEN {<<>>}
  ELSE LET shorter == Ledgers(n - 1)
       IN  shorter \cup
           {Append(l, Fill(f, t)) : l \in {x \in shorter : Len(x) = n - 1},
                                    f \in FetchOnly.fills, t \in 0..MaxFillTime}

IsOldestFirst(l) == \A i \in 1..(Len(l) - 1) : l[i].time <= l[i + 1].time

InitFetch ==
  /\ scope = FetchOnly
  /\ clock = MaxFillTime
  /\ ledger \in {l \in Ledgers(MaxFetchFills) : IsOldestFirst(l)}
  /\ accountCache = [a \in Accounts |-> NoCache]
  /\ dailyPnL = <<>>
  /\ selected = <<>>
  /\ last = Idle
  /\ Sequential

(* one call of FetchTradesInRange(address, start, end); the client keeps nothing
   from one call to the next, so a behaviour makes one call *)
FetchRange(address, start, end, failAt) ==
  LET res == FetchTradesInRange(address, start, end, failAt)
  IN  /\ last = Idle
      /\ last' = [Idle EXCEPT !.op = "fetch", !.address = address, !.sourceOk = res.ok,
                              !.ret = IF res.ok THEN "nil" ELSE "err",
                              !.fetched = res.trades, !.requests = res.requests]
      /\ UNCHANGED <<scope, clock, ledger, accountCache, dailyPnL, selected, mu, pc>>

FetchFailChoices == 0..(MaxFetchFills \div MaxTradesPerBatch + 1)

NextFetch ==
  \E address \in scope.users, start \in 0..MaxFillTime, end \in 0..MaxFillTime,
     failAt \in FetchFailChoices :
       start <= end /\ FetchRange(address, start, end, failAt)

SpecFetch == InitFetch /\ [][NextFetch]_vars

----------------------------------------------------------------------------
(* What the properties speak of *)

(* the identity triple of a trade *)
Identity(trade) == <<trade.time, trade.coin, trade.side>>

Identities(trades) == {Identity(trades[i]) : i \in 1..Len(trades)}

IsTimeOrdered(trades) == \A i \in 1..(Len(trades) - 1) : trades[i].time <= trades[i + 1].time

HasNoDuplicate(trades) ==
  \A i, j \in 1..Len(trades) : Identity(trades[i]) = Identity(trades[j]) => i = j

NotOlderThan(trades, cutoff) == SelectSeq(trades, LAMBDA t : t.time >= cutoff)

(* sell notional minus buy notional of the trades of one date *)
RECURSIVE NetOn(_, _)
NetOn(trades, date) ==
  IF trades = <<>> THEN 0
  ELSE LET t == Head(trades)
       IN  (IF DateKey(t.time) # date THEN 0
            ELSE IF t.side = Sell THEN t.value
            ELSE IF t.side = Buy THEN 0 - t.value
            ELSE 0)
           + NetOn(Tail(trades), date)

(* table is the aggregation of trades: a record for exactly the dates trades has,
   with the number of trades and the net notional of the date *)
IsTableOf(table, trades) ==
  /\ DOMAIN table = {DateKey(trades[i].time) : i \in 1..Len(trades)}
  /\ \A d \in DOMAIN table :
       /\ table[d].date = d
       /\ table[d].tradeCount = Cardinality({i \in 1..Len(trades) : DateKey(trades[i].time) = d})
       /\ table[d].dailyPnL = NetOn(trades, d)

(* the cache was fresh when the last handler call read it *)
WasFresh == last.pre.exists /\ last.now - last.pre.lastFetchTime < Hour

(* the last step was a FetchAndReconcile call that found a fresh cache *)
FoundFresh == last.op = "reconcile" /\ WasFresh

----------------------------------------------------------------------------
(* C1: whenever the Trade Source fails, on the full-fetch or on an incremental
   branch, FetchAndReconcile returns the error and every cache entry is what it
   was before the call: same trades, same lastFetchTime, same cachedDays, and no
   entry created. *)
C1_FailureLeavesCache ==
  [][(last'.op = "reconcile" /\ ~last'.sourceOk)
       => (last'.ret = "err" /\ accountCache' = accountCache)]_vars

(* an incremental fetch that failed at its second batch, after a first full batch *)
C1_Witness ==
  /\ last.op = "reconcile" /\ ~last.sourceOk /\ last.branch = "incremental"
  /\ Len(last.requests) = 2
  /\ accountCache[last.address].exists

(* no entry, or an entry fetched one hour ago or longer *)
FullFetchDue == ~last.pre.exists \/ last.now - last.pre.lastFetchTime >= Hour

EntryOfFullFetch ==
  [exists |-> TRUE, trades |-> last.fetched, lastFetchTime |-> last.now, cachedDays |-> last.days]

(* every request of the last call ends at end, and the first one starts at start *)
AskedFor(start, end) ==
  /\ last.requests[1].startTime = start
  /\ \A i \in 1..Len(last.requests) : last.requests[i].endTime = end

(* C2, as stated: with no cache entry, or one whose lastFetchTime is one hour or
   more old, FetchAndReconcile(account, d) fetches the window [now - d days, now]
   in full and, on success, leaves the entry with exactly the trades the source
   returned, lastFetchTime = now and cachedDays = d. *)
C2_Original ==
  (last.op = "reconcile" /\ FullFetchDue)
    => /\ last.branch = "full"
       /\ AskedFor(last.now - last.days * Day, last.now)
       /\ last.sourceOk => accountCache[last.address] = EntryOfFullFetch

(* C2, amended: the window is [now2 - d days, now2], where now2 >= now is the
   clock as FetchTrades reads it after the handler read now; lastFetchTime is
   now. *)
C2_FullFetchWhenNoneOrStale ==
  (last.op = "reconcile" /\ FullFetchDue)
    => /\ last.branch = "full"
       /\ last.now <= last.now2
       /\ AskedFor(last.now2 - last.days * Day, last.now2)
       /\ last.sourceOk => accountCache[last.address] = EntryOfFullFetch

(* a cache fetched exactly one hour before, with the days it is asked for again,
   replaced by a fetch that returned trades *)
C2_Witness ==
  /\ last.op = "reconcile" /\ last.sourceOk /\ last.branch = "full"
  /\ last.pre.exists /\ last.now - last.pre.lastFetchTime = Hour
  /\ last.days <= last.pre.cachedDays
  /\ last.fetched # <<>>

(* C3, as stated: on a fresh cache with d <= cachedDays the Trade Source is asked
   only for [cache.lastFetchTime, now]; on success the cache's trades become
   merge(cached trades, fetched trades), lastFetchTime becomes now and cachedDays
   stays. *)
C3_Original ==
  [][(last'.op = "reconcile" /\ accountCache[last'.address].exists
        /\ IsFresh(accountCache[last'.address], last'.now)
        /\ last'.days <= accountCache[last'.address].cachedDays)
       => LET before == accountCache[last'.address]
              after  == accountCache'[last'.address]
          IN  /\ last'.requests[1].startTime = before.lastFetchTime
              /\ \A i \in 1..Len(last'.requests) :
                   /\ last'.requests[i].startTime >= before.lastFetchTime
                   /\ last'.requests[i].endTime = last'.now
              /\ last'.sourceOk =>
                   /\ after.trades \in mergeTrades(before.trades, last'.fetched)
                   /\ after.lastFetchTime = last'.now
                   /\ after.cachedDays = before.cachedDays]_vars

(* C4, as stated: on a fresh cache with d = cachedDays the table is computed from
   the whole merged cache, with no filtering: every cached trade is counted, also
   one older than now - d days. *)
C4_Original ==
  (FoundFresh /\ last.ret = "nil" /\ last.days = last.pre.cachedDays)
    => /\ selected = accountCache[last.address].trades
       /\ IsTableOf(dailyPnL, accountCache[last.address].trades)

(* C5: after a successful call on a fresh cache with d < cachedDays, the table is
   computed from exactly the cached trades with time >= now - d days, and the
   cache holds the whole merged set, not the filtered one: a trade of every
   identity that was cached before or was fetched, whatever its age, and no
   trade that was neither cached nor fetched. *)
C5_FilteredViewFullCache ==
  [][(last'.op = "reconcile" /\ last'.ret = "nil" /\ accountCache[last'.address].exists
        /\ IsFresh(accountCache[last'.address], last'.now)
        /\ last'.days < accountCache[last'.address].cachedDays)
       => LET before == accountCache[last'.address].trades
              after  == accountCache'[last'.address].trades
              view   == NotOlderThan(after, last'.now - last'.days * Day)
          IN  /\ selected' = view
              /\ IsTableOf(dailyPnL', view)
              /\ Identities(before) \cup Identities(last'.fetched) \subseteq Identities(after)
              /\ Range(after) \subseteq Range(before) \cup Range(last'.fetched)]_vars

(* a 1-day view of a 2-day cache: a cached trade older than the cutoff is absent
   from the table, a trade made exactly at the cutoff is in it *)
C5_Witness ==
  /\ FoundFresh /\ last.ret = "nil" /\ last.days < last.pre.cachedDays
  /\ \E i \in 1..Len(accountCache[last.address].trades) :
       accountCache[last.address].trades[i].time < last.now - last.days * Day
  /\ \E i \in 1..Len(selected) : selected[i].time = last.now - last.days * Day

(* C6, as stated: on a fresh cache with d > cachedDays the handler fetches in
   full: the cache's trades are replaced by the set fetched for
   [now - d days, now] and cachedDays becomes d. *)
C6_Original ==
  (FoundFresh /\ last.days > last.pre.cachedDays)
    => /\ last.branch = "full"
       /\ AskedFor(last.now - last.days * Day, last.now)
       /\ last.sourceOk =>
            /\ accountCache[last.address].trades = last.fetched
            /\ accountCache[last.address].cachedDays = last.days

(* C6, amended: the set is the one fetched for [now2 - d days, now2], where
   now2 >= now is the clock as FetchTrades reads it. *)
C6_FullFetchWhenWindowGrows ==
  (FoundFresh /\ last.days > last.pre.cachedDays)
    => /\ last.branch = "full"
       /\ last.now <= last.now2
       /\ AskedFor(last.now2 - last.days * Day, last.now2)
       /\ last.sourceOk =>
            /\ accountCache[last.address].trades = last.fetched
            /\ accountCache[last.address].cachedDays = last.days

(* a fresh 1-day cache asked for 2 days: the fetch reaches further back than the
   entry's own window did *)
C6_Witness ==
  /\ FoundFresh /\ last.sourceOk /\ last.days > last.pre.cachedDays
  /\ last.fetched # <<>>
  /\ last.fetched[1].time < last.pre.lastFetchTime - last.pre.cachedDays * Day

(* C7, as stated: in every reachable state each account's cached trades are in
   non-decreasing time order and no two of them share an identity triple. *)
C7_Original ==
  \A a \in Accounts :
    IsTimeOrdered(accountCache[a].trades) /\ HasNoDuplicate(accountCache[a].trades)

(* C8: cachedDays changes only in a step where a full fetch for that account
   succeeds; an incremental step never lowers it. *)
C8_CachedDaysOnlyByFullFetch ==
  [][\A a \in Accounts :
       /\ accountCache'[a].cachedDays # accountCache[a].cachedDays
            => (last'.op = "reconcile" /\ last'.address = a
                /\ last'.branch = "full" /\ last'.sourceOk)
       /\ (last'.op = "reconcile" /\ last'.branch # "full")
            => accountCache'[a].cachedDays >= accountCache[a].cachedDays]_vars

(* a successful incremental call for fewer days than cached: the entry keeps its
   cachedDays *)
C8_Witness ==
  /\ last.op = "reconcile" /\ last.branch = "incremental" /\ last.sourceOk
  /\ last.days < accountCache[last.address].cachedDays
  /\ accountCache[last.address].lastFetchTime = last.now

(* the trade list the last successful call's branch selects *)
SelectedByLast ==
  IF last.branch = "full" THEN last.fetched
  ELSE IF last.branch = "same" THEN accountCache[last.address].trades
  ELSE NotOlderThan(accountCache[last.address].trades, last.now - last.days * Day)

(* C9: the table is the aggregation of the trade list the most recent successful
   reconcile selected, whichever account it was for: a record for a date if and
   only if that list has a trade on the date, and nothing left of an earlier
   table. *)
C9_TableIsLastSelection ==
  /\ IsTableOf(dailyPnL, selected)
  /\ (last.op = "reconcile" /\ last.ret = "nil") => selected = SelectedByLast

(* the table comes from 0xb's trades and has no record for a date on which 0xa,
   reconciled before, has a cached trade *)
C9_Witness ==
  /\ last.op = "reconcile" /\ last.ret = "nil" /\ last.address = "0xb"
  /\ dailyPnL # <<>>
  /\ \E i \in 1..Len(accountCache["0xa"].trades) :
       DateKey(accountCache["0xa"].trades[i].time) \notin DOMAIN dailyPnL

(* the trades of the fills the venue holds for the last call's address in the
   window the call asked for, unparseable fills left out *)
ExpectedOfLast ==
  convertBatch(SelectSeq(ledger, LAMBDA f :
    /\ f.user = last.address
    /\ f.time >= last.requests[1].startTime
    /\ f.time <= last.requests[1].endTime))

Occurrences(trades, x) == Cardinality({i \in 1..Len(trades) : trades[i] = x})

(* C10, as stated: FetchTradesInRange never truncates silently: a successful call
   returns every parseable fill the venue holds in [start, end], also fills that
   share a timestamp on either side of a page boundary. *)
C10_Original ==
  (last.op = "fetch" /\ last.sourceOk)
    => \A x \in Range(ExpectedOfLast) :
         Occurrences(last.fetched, x) >= Occurrences(ExpectedOfLast, x)

----------------------------------------------------------------------------
(* GetPnLSummary *)

(* DailyPnL.Date as Format("2006-01-02") writes it: zero-padded decimal fields of
   fixed width, here the two digits of the day's number *)
DateText(d) == <<d \div 10, d % 10>>

(* a comparison that puts the older date first *)
TextSmaller(a, b) ==
  \E i \in 1..Min(Len(a), Len(b)) :
    /\ \A j \in 1..(i - 1) : a[j] = b[j]
    /\ a[i] < b[i]

(* Go's > on strings: the first place where they differ decides *)
TextGreater(a, b) ==
  \E i \in 1..Min(Len(a), Len(b)) :
    /\ \A j \in 1..(i - 1) : a[j] = b[j]
    /\ a[i] > b[i]

(* lines 408-416: the table's records, sorted by Date descending (the dates of a
   map are distinct, so the order is one) *)
RECURSIVE RecordsByDateDescending(_)
RecordsByDateDescending(table) ==
  IF DOMAIN table = {} THEN <<>>
  ELSE LET top == CHOOSE d \in DOMAIN table :
                    \A e \in DOMAIN table \ {d} : TextGreater(DateText(d), DateText(e))
       IN  <<table[top]>> \o RecordsByDateDescending([d \in DOMAIN table \ {top} |-> table[d]])

(* a cumulative accumulated from the first record, the newest, down to record i *)
RECURSIVE CumulativeFromNewest(_, _)
CumulativeFromNewest(records, i) ==
  IF i < 1 \/ i > Len(records) THEN 0
  ELSE records[i].dailyPnL + CumulativeFromNewest(records, i - 1)

(* lines 419-423: cumulative, accumulated from the last record up to record i *)
RECURSIVE CumulativeAt(_, _)
CumulativeAt(records, i) ==
  IF i > Len(records) THEN 0 ELSE records[i].dailyPnL + CumulativeAt(records, i + 1)

(* a total that stops before the last record, the oldest *)
RECURSIVE TotalButOldest(_)
TotalButOldest(records) ==
  IF Len(records) <= 1 THEN 0 ELSE Head(records).dailyPnL + TotalButOldest(Tail(records))

(* lines 425-428: totalPnL, added up over the records from the first on *)
RECURSIVE TotalPnL(_)
TotalPnL(records) ==
  IF records = <<>> THEN 0 ELSE Head(records).dailyPnL + TotalPnL(Tail(records))

GetPnLSummary(table) ==
  LET records == RecordsByDateDescending(table)
  IN  [dailyRecords |-> [i \in 1..Len(records) |->
                           [date          |-> records[i].date,
                            tradeCount    |-> records[i].tradeCount,
                            dailyPnL      |-> records[i].dailyPnL,
                            cumulativePnL |-> CumulativeAt(records, i)]],
       totalPnL |-> TotalPnL(records)]

----------------------------------------------------------------------------
(* FetchAndReconcile and GetPnLSummary called from several goroutines: the
   steps each takes between Lock and Unlock, RLock and RUnlock *)

(* the venue holds a buy 0xa made on day 0 and a sell it made on day 1, and
   nothing of 0xb; it is tick 3 *)
Concurrent ==
  [users |-> {"0xa", "0xb"}, days |-> {1, 2}, zone |-> 0, arrange |-> "oldestFirst",
   fills |-> {Template("0xa", Buy, "1"), Template("0xa", Sell, "2")}]

InitLock ==
  /\ scope = Concurrent
  /\ clock = Day + 1
  /\ ledger = <<Fill(Template("0xa", Buy, "1"), 0), Fill(Template("0xa", Sell, "2"), Day)>>
  /\ accountCache = [a \in Accounts |-> NoCache]
  /\ dailyPnL = <<>>
  /\ selected = <<>>
  /\ last = Idle
  /\ Sequential

(* a Lock that does not wait for the readers to leave *)
CanLockDespiteReaders(m) == m.writer = "none"

(* rs.mu.Lock() returns when nobody holds the lock *)
CanLock(m) == m.writer = "none" /\ m.readers = {}

(* an RLock that does not wait for the writer to leave *)
CanRLockAlways(m) == m.writer \in {"none"} \cup Goroutines

(* rs.mu.RLock() returns when no writer holds the lock and none has asked for
   it: sync.RWMutex lets no new reader in once a Lock call is waiting *)
CanRLock(m) == m.writer = "none" /\ m.pending = "none"

(* rs.mu.Lock() takes the mutex's writer slot when no other Lock call has it *)
CanAnnounce(m) == m.writer = "none" /\ m.pending = "none"

(* a handler that unlocks before return nil and not on the error returns *)
MuAfterUnlockOnSuccess(m, ret, woken) ==
  IF ret = "err" THEN m ELSE [m EXCEPT !.writer = "none", !.readers = woken]

(* line 212: the deferred rs.mu.Unlock() runs on every return; the RLock calls
   that were blocked behind the writer get the read lock with it *)
MuAfterUnlock(m, ret, woken) == [m EXCEPT !.writer = "none", !.readers = woken]

(* the handler of POST /api/refresh calls FetchAndReconcile(address, days),
   which calls rs.mu.Lock() (lines 210-211) *)
CallFetchAndReconcile(g, address, days) ==
  /\ pc[g].at = "idle"
  /\ pc' = [pc EXCEPT ![g] = [at |-> "lock", address |-> address, days |-> days]]
  /\ UNCHANGED <<scope, clock, ledger, accountCache, dailyPnL, selected, last, mu>>

(* rs.mu.Lock(), first half: the call takes the writer slot, and from then on
   new RLock calls block *)
Announce(g) ==
  /\ pc[g].at = "lock"
  /\ CanAnnounce(mu)
  /\ mu' = [mu EXCEPT !.pending = g]
  /\ pc' = [pc EXCEPT ![g].at = "drain"]
  /\ UNCHANGED <<scope, clock, ledger, accountCache, dailyPnL, selected, last>>

(* a table that keeps the records it had *)
KeptTable(table) == table

(* line 356: rs.dailyPnL is replaced by a new map, which has no record *)
EmptiedTable(table) == <<>>

(* line 211: rs.mu.Lock() returns, the readers that held the lock having left *)
Lock(g) ==
  /\ pc[g].at = "drain"
  /\ CanLock(mu)
  /\ mu' = [mu EXCEPT !.writer = g, !.pending = "none"]
  /\ pc' = [pc EXCEPT ![g].at = "locked"]
  /\ UNCHANGED <<scope, clock, ledger, accountCache, dailyPnL, selected, last>>

(* lines 214-296 up to line 356 of calculateDailyPnLFromTrades: the fetch, the
   cache write, the choice of the trade list, and the table replaced by an empty
   map; on a failed fetch the handler returns at once *)
ReconcileLocked(g, failAt) ==
  /\ pc[g].at = "locked"
  /\ LET address     == pc[g].address
         days        == pc[g].days
         cache       == accountCache[address]
         now         == clock
         incremental == Case1Applies(cache, days, now)
         window      == IncrementalWindow(cache, now)
         res         == IF incremental
                        THEN FetchTradesInRange(address, window.start, window.end, failAt)
                        ELSE FetchTrades(address, days, now, failAt)
     IN  IF ~res.ok
         THEN /\ pc' = [pc EXCEPT ![g] = [at |-> "unlock", ret |-> "err"]]
              /\ UNCHANGED <<accountCache, dailyPnL, selected>>
         ELSE \E merged \in (IF incremental
                             THEN TradesAfterIncremental(cache.trades, res.trades)
                             ELSE {res.trades}) :
                LET trades == IF incremental
                              THEN filterTradesByTime(merged, now - days * Day)
                              ELSE res.trades
                IN  /\ accountCache' = StoreEntry(accountCache, address,
                          IF incremental
                          THEN EntryAfterIncremental(cache, days, res, merged, now)
                          ELSE EntryAfterFull(cache, res, now, days))
                    /\ selected' = trades
                    /\ dailyPnL' = EmptiedTable(dailyPnL)
                    /\ pc' = [pc EXCEPT ![g] = [at |-> "build", pending |-> TradeDates(trades)]]
  /\ UNCHANGED <<scope, clock, ledger, last, mu>>

(* one pass of the loop of lines 358-365: the record of one date is put in the
   table *)
PutRecord(g) ==
  /\ pc[g].at = "build"
  /\ \E d \in pc[g].pending :
       /\ dailyPnL' = [e \in DOMAIN dailyPnL \cup {d} |->
                         IF e = d THEN DayRecord(selected, d) ELSE dailyPnL[e]]
       /\ pc' = [pc EXCEPT ![g].pending = pc[g].pending \ {d}]
  /\ UNCHANGED <<scope, clock, ledger, accountCache, selected, last, mu>>

(* the loop is over: return nil *)
ReturnNil(g) ==
  /\ pc[g].at = "build"
  /\ pc[g].pending = {}
  /\ pc' = [pc EXCEPT ![g] = [at |-> "unlock", ret |-> "nil"]]
  /\ UNCHANGED <<scope, clock, ledger, accountCache, dailyPnL, selected, last, mu>>

(* line 212: the deferred Unlock *)
Unlock(g) ==
  /\ pc[g].at = "unlock"
  /\ mu' = MuAfterUnlock(mu, pc[g].ret, {h \in Goroutines : pc[h].at = "rblocked"})
  /\ pc' = [h \in Goroutines |->
              IF h = g THEN NoCall
              ELSE IF h \in mu'.readers THEN [at |-> "rlocked"]
              ELSE pc[h]]
  /\ UNCHANGED <<scope, clock, ledger, accountCache, dailyPnL, selected, last>>

(* the handler of GET /api/pnl calls GetPnLSummary(), which calls rs.mu.RLock()
   (lines 403-404) *)
CallGetPnLSummary(g) ==
  /\ pc[g].at = "idle"
  /\ pc' = [pc EXCEPT ![g] = [at |-> "rlock"]]
  /\ UNCHANGED <<scope, clock, ledger, accountCache, dailyPnL, selected, last, mu>>

(* line 404: rs.mu.RLock() returns at once, or blocks until the writer unlocks *)
RLock(g) ==
  /\ pc[g].at = "rlock"
  /\ IF CanRLock(mu)
     THEN /\ mu' = [mu EXCEPT !.readers = mu.readers \cup {g}]
          /\ pc' = [pc EXCEPT ![g] = [at |-> "rlocked"]]
     ELSE /\ mu' = mu
          /\ pc' = [pc EXCEPT ![g] = [at |-> "rblocked"]]
  /\ UNCHANGED <<scope, clock, ledger, accountCache, dailyPnL, selected, last>>

(* lines 408-433: the table is read and the summary made of what was read *)
ReadTable(g) ==
  /\ pc[g].at = "rlocked"
  /\ pc' = [pc EXCEPT ![g] = [at |-> "runlock", saw |-> dailyPnL, summary |-> GetPnLSummary(dailyPnL)]]
  /\ UNCHANGED <<scope, clock, ledger, accountCache, dailyPnL, selected, last, mu>>

(* line 405: the deferred RUnlock; the summary goes to the caller *)
RUnlock(g) ==
  /\ pc[g].at = "runlock"
  /\ mu' = [mu EXCEPT !.readers = mu.readers \ {g}]
  /\ pc' = [pc EXCEPT ![g] = NoCall]
  /\ UNCHANGED <<scope, clock, ledger, accountCache, dailyPnL, selected, last>>

NextLock ==
  \E g \in Goroutines :
    \/ \E address \in scope.users, days \in scope.days : CallFetchAndReconcile(g, address, days)
    \/ Announce(g)
    \/ Lock(g)
    \/ \E failAt \in {0, 1} : ReconcileLocked(g, failAt)
    \/ PutRecord(g)
    \/ ReturnNil(g)
    \/ Unlock(g)
    \/ CallGetPnLSummary(g)
    \/ RLock(g)
    \/ ReadTable(g)
    \/ RUnlock(g)

SpecLock == InitLock /\ [][NextLock]_vars

(* g is between Lock and Unlock *)
InWrite(g) == pc[g].at \in {"locked", "build", "unlock"}

(* g is between RLock and RUnlock *)
InRead(g) == pc[g].at \in {"rlocked", "runlock"}

(* C11: a goroutine inside FetchAndReconcile's critical section is alone in the
   store's critical sections: no other goroutine is inside FetchAndReconcile's
   or GetPnLSummary's.  (That several GetPnLSummary calls can be inside together
   is the state C11_Witness describes.) *)
C11_WriterAlone ==
  \A g, h \in Goroutines :
    (InWrite(g) /\ h # g) => (~InWrite(h) /\ ~InRead(h))

(* two GetPnLSummary calls inside the critical section at once, after a
   reconcile has been in it *)
C11_Witness ==
  /\ accountCache["0xa"].exists
  /\ \E g, h \in Goroutines : g # h /\ InRead(g) /\ InRead(h)

(* C12: the table a GetPnLSummary call read is a complete one, the aggregation
   of the whole trade list the last table-building reconcile was given (at the
   start: the empty table of no trades), never an emptied or half-filled table;
   and the summary it returns is the summary of that table. *)
C12_SummaryOfCompleteTable ==
  \A g \in Goroutines :
    pc[g].at = "runlock" =>
      /\ IsTableOf(pc[g].saw, selected)
      /\ Len(pc[g].summary.dailyRecords) = Cardinality(TradeDates(selected))
      /\ \A d \in TradeDates(selected) :
           \E i \in 1..Len(pc[g].summary.dailyRecords) :
             /\ pc[g].summary.dailyRecords[i].date = d
             /\ pc[g].summary.dailyRecords[i].tradeCount = Len(DayTrades(selected, d))

(* a summary of a two-date table read while another goroutine waits to rebuild
   it: the other goroutine cannot take the lock *)
C12_Witness ==
  \E g \in Goroutines :
    /\ pc[g].at = "runlock"
    /\ Len(pc[g].summary.dailyRecords) = 2
    /\ \E h \in Goroutines \ {g} : pc[h].at = "drain" /\ ~CanLock(mu)

----------------------------------------------------------------------------
(* mergeTrades, filterTradesByTime and calculatePnLForDay on their own, on trade
   lists of any order *)

(* trades are timestamped 0..MaxTradeTime *)
MaxTradeTime == 1

(* existing, and the lists given to the filter and to the day P&L, hold at most
   MaxExisting trades *)
MaxExisting == 2

(* new holds at most MaxNew trades *)
MaxNew == 1

ETH == <<"E", "T", "H">>

(* what a trade given to mergeTrades can be but for its time: two BTC buys that
   differ in price only, and an ETH sell *)
Kinds ==
  {[coin |-> BTC, side |-> Buy, px |-> "1"], [coin |-> BTC, side |-> Buy, px |-> "2"],
   [coin |-> ETH, side |-> Sell, px |-> "2"]}

(* what a trade given to the filter or to the day P&L can be: those, a BTC sell
   and an ETH buy *)
DayKinds ==
  Kinds \cup {[coin |-> BTC, side |-> Sell, px |-> "1"], [coin |-> ETH, side |-> Buy, px |-> "1"]}

(* the trade convertFillToTrade makes of a fill of kind k at time t *)
TradeOf(k, t) ==
  convertFillToTrade([user |-> "0xa", time |-> t, coin |-> k.coin, side |-> k.side,
                      px |-> k.px, sz |-> "1"])

Universe(kinds) == {TradeOf(k, t) : k \in kinds, t \in 0..MaxTradeTime}

(* the lists of at most n trades of the given kinds, in any order, repetitions
   included *)
RECURSIVE TradeLists(_, _)
TradeLists(kinds, n) ==
  IF n = 0 THEN {<<>>}
  ELSE LET shorter == TradeLists(kinds, n - 1)
       IN  shorter \cup {Append(l, x) : l \in {y \in shorter : Len(y) = n - 1},
                                        x \in Universe(kinds)}

Functions == [users |-> {}, days |-> {}, zone |-> 0, arrange |-> "oldestFirst", fills |-> {}]

(* the calls to make: a function and its arguments *)
Calls ==
  {[op |-> "call", fn |-> "mergeTrades", existing |-> existing, new |-> new] :
     existing \in TradeLists(Kinds, MaxExisting), new \in TradeLists(Kinds, MaxNew)}
  \cup
  {[op |-> "call", fn |-> "mergeTrades", existing |-> existing, new |-> existing] :
     existing \in TradeLists(Kinds, MaxExisting)}
  \cup
  {[op |-> "call", fn |-> "filterTradesByTime", trades |-> trades, cutoffTime |-> cutoffTime] :
     trades \in TradeLists(DayKinds, MaxExisting), cutoffTime \in (-1)..(MaxTradeTime + 1)}
  \cup
  {[op |-> "call", fn |-> "calculatePnLForDay", trades |-> trades] :
     trades \in TradeLists(DayKinds, MaxExisting)}

InitPure ==
  /\ scope = Functions
  /\ clock = 0
  /\ ledger = <<>>
  /\ accountCache = [a \in Accounts |-> NoCache]
  /\ dailyPnL = <<>>
  /\ selected = <<>>
  /\ last \in Calls
  /\ Sequential

(* the call of mergeTrades(existing, new) *)
MergeTrades ==
  /\ last.op = "call" /\ last.fn = "mergeTrades"
  /\ \E merged \in mergeTrades(last.existing, last.new) :
       last' = [op |-> "merge", existing |-> last.existing, new |-> last.new, merged |-> merged]
  /\ UNCHANGED <<scope, clock, ledger, accountCache, dailyPnL, selected, mu, pc>>

(* the call of filterTradesByTime(trades, cutoffTime) *)
FilterTrades ==
  /\ last.op = "call" /\ last.fn = "filterTradesByTime"
  /\ last' = [op |-> "filter", trades |-> last.trades, cutoffTime |-> last.cutoffTime,
              filtered |-> filterTradesByTime(last.trades, last.cutoffTime)]
  /\ UNCHANGED <<scope, clock, ledger, accountCache, dailyPnL, selected, mu, pc>>

(* the call of calculatePnLForDay(trades) *)
PnLForDay ==
  /\ last.op = "call" /\ last.fn = "calculatePnLForDay"
  /\ last' = [op |-> "pnl", trades |-> last.trades, pnl |-> calculatePnLForDay(last.trades)]
  /\ UNCHANGED <<scope, clock, ledger, accountCache, dailyPnL, selected, mu, pc>>

NextPure == MergeTrades \/ FilterTrades \/ PnLForDay

SpecPure == InitPure /\ [][NextPure]_vars

(* C13: whatever existing and new are, in whatever order, the list mergeTrades
   returns is in ascending (non-decreasing) order of time. *)
C13_MergeSorted ==
  last.op = "merge" => IsTimeOrdered(last.merged)

(* existing is not in time order and new holds a trade older than one of
   existing's *)
C13_Witness ==
  /\ last.op = "merge"
  /\ ~IsTimeOrdered(last.existing)
  /\ \E i \in 1..Len(last.new), j \in 1..Len(last.existing) :
       last.new[i].time < last.existing[j].time
  /\ Len(last.merged) = 3

(* C14, as stated: whenever every trade of new has the identity triple of some
   trade of existing, the merged list is as long as existing. *)
C14_Original ==
  (last.op = "merge" /\ Identities(last.new) \subseteq Identities(last.existing))
    => Len(last.merged) = Len(last.existing)

(* C14, amended: whenever existing holds no two trades of one identity triple
   and every trade of new has the identity triple of some trade of existing, the
   merged list is as long as existing. *)
C14_MergeDedup ==
  (last.op = "merge" /\ HasNoDuplicate(last.existing)
     /\ Identities(last.new) \subseteq Identities(last.existing))
    => Len(last.merged) = Len(last.existing)

(* new repeats the identity of one of two cached trades, at another price *)
C14_Witness ==
  /\ last.op = "merge" /\ HasNoDuplicate(last.existing)
  /\ Len(last.existing) = 2 /\ Len(last.new) = 1
  /\ Identities(last.new) \subseteq Identities(last.existing)
  /\ last.new[1] \notin Range(last.existing)

(* C15, as stated: merging a time-ordered list with itself returns the same
   list, members and order, also when it holds trades of equal time that differ
   in coin or side.  (Taken here of lists with no two trades of one identity
   only, as a trade set has none.) *)
C15_Original ==
  (last.op = "merge" /\ last.new = last.existing /\ IsTimeOrdered(last.existing)
     /\ HasNoDuplicate(last.existing))
    => last.merged = last.existing

(* C16: when a trade of new has the identity triple of a trade of existing, the
   merged list holds exactly one trade of that identity, and it is a trade of
   new: it has the fetched price, size and value, not the cached ones. *)
C16_NewestWins ==
  last.op = "merge" =>
    \A i \in 1..Len(last.new) :
      Identity(last.new[i]) \in Identities(last.existing) =>
        /\ Cardinality({j \in 1..Len(last.merged) :
                          Identity(last.merged[j]) = Identity(last.new[i])}) = 1
        /\ \A j \in 1..Len(last.merged) :
             Identity(last.merged[j]) = Identity(last.new[i]) =>
               \E k \in 1..Len(last.new) :
                 /\ last.merged[j].price = last.new[k].price
                 /\ last.merged[j].size = last.new[k].size
                 /\ last.merged[j].value = last.new[k].value
                 /\ Identity(last.new[k]) = Identity(last.new[i])

(* a fetched trade with the identity of a cached one and another price *)
C16_Witness ==
  /\ last.op = "merge" /\ Len(last.new) = 1
  /\ \E j \in 1..Len(last.existing) :
       /\ Identity(last.existing[j]) = Identity(last.new[1])
       /\ last.existing[j].price # last.new[1].price
  /\ last.new[1] \in Range(last.merged)

(* C17: filterTradesByTime returns exactly the trades with time >= cutoff, a
   trade made at the cutoff included, in the order the input has them: it is the
   input with the older trades struck out. *)
C17_FilterKeepsFromCutoff ==
  last.op = "filter" =>
    /\ last.filtered = NotOlderThan(last.trades, last.cutoffTime)
    /\ \A i \in 1..Len(last.filtered) : last.filtered[i].time >= last.cutoffTime
    /\ \A i \in 1..Len(last.trades) :
         last.trades[i].time >= last.cutoffTime <=>
           Occurrences(last.filtered, last.trades[i]) = Occurrences(last.trades, last.trades[i])

(* a list out of time order with a trade made exactly at the cutoff: two trades
   kept in the input's order *)
C17_Witness ==
  /\ last.op = "filter" /\ Len(last.trades) = 2 /\ Len(last.filtered) = 2
  /\ last.trades[1].time > last.trades[2].time
  /\ last.trades[2].time = last.cutoffTime

(* the notional of a trade as income (a sell) or cost (a buy) *)
Signed(trade) ==
  IF trade.side = Sell THEN trade.value
  ELSE IF trade.side = Buy THEN 0 - trade.value
  ELSE 0

RECURSIVE NetOfCoin(_, _)
NetOfCoin(trades, coin) ==
  IF trades = <<>> THEN 0
  ELSE (IF Head(trades).coin = coin THEN Signed(Head(trades)) ELSE 0) + NetOfCoin(Tail(trades), coin)

(* C18: the day P&L is the sum, over the distinct coins of the trades, of the
   coin's sell notional minus its buy notional; of buys alone it is minus the sum
   of their notionals, of sells alone the sum of their notionals. *)
C18_DayPnL ==
  last.op = "pnl" =>
    LET coins == {last.trades[i].coin : i \in 1..Len(last.trades)}
    IN  /\ last.pnl = SumOver(coins, [c \in coins |-> NetOfCoin(last.trades, c)])
        /\ (\A i \in 1..Len(last.trades) : last.trades[i].side = Buy)
             => last.pnl = 0 - SumValue(last.trades)
        /\ (\A i \in 1..Len(last.trades) : last.trades[i].side = Sell)
             => last.pnl = SumValue(last.trades)

(* a BTC buy and an ETH sell: two coins, one with a cost and one with an income *)
C18_Witness ==
  /\ last.op = "pnl" /\ Len(last.trades) = 2
  /\ \E i, j \in 1..2 :
       /\ last.trades[i].coin = BTC /\ last.trades[i].side = Buy
       /\ last.trades[j].coin = ETH /\ last.trades[j].side = Sell
  /\ last.pnl # 0

----------------------------------------------------------------------------
(* calculateDailyPnLFromTrades and GetPnLSummary on their own, in a process
   whose time zone is UTC or ahead of UTC *)

(* trades are timestamped 0..MaxDailyTime *)
MaxDailyTime == 4

(* the list given to calculateDailyPnLFromTrades holds at most MaxDailyTrades
   trades *)
MaxDailyTrades == 3

(* the offsets from UTC of the zones the process can run in, in ticks: UTC, and
   half a day ahead of it *)
Zones == {0, 1}

DailyKinds ==
  {[coin |-> BTC, side |-> Buy, px |-> "1"], [coin |-> BTC, side |-> Sell, px |-> "1"],
   [coin |-> BTC, side |-> Sell, px |-> "2"]}

(* the time-ordered lists of at most n trades *)
RECURSIVE DailyLists(_)
DailyLists(n) ==
  IF n = 0 THEN {<<>>}
  ELSE LET shorter == DailyLists(n - 1)
       IN  shorter \cup
           {Append(l, TradeOf(k, t)) : l \in {y \in shorter : Len(y) = n - 1},
                                       k \in DailyKinds, t \in 0..MaxDailyTime}

Daily(zone) == [users |-> {}, days |-> {}, zone |-> zone, arrange |-> "oldestFirst", fills |-> {}]

InitDaily ==
  /\ scope \in {Daily(zone) : zone \in Zones}
  /\ clock = 0
  /\ ledger = <<>>
  /\ accountCache = [a \in Accounts |-> NoCache]
  /\ dailyPnL = <<>>
  /\ selected = <<>>
  /\ last \in {[op |-> "call", fn |-> "calculateDailyPnLFromTrades", trades |-> trades] :
                 trades \in {l \in DailyLists(MaxDailyTrades) : IsTimeOrdered(l)}}
  /\ Sequential

(* the call of calculateDailyPnLFromTrades(trades) *)
CalculateDaily ==
  /\ last.op = "call" /\ last.fn = "calculateDailyPnLFromTrades"
  /\ dailyPnL' = calculateDailyPnLFromTrades(last.trades)
  /\ selected' = last.trades
  /\ last' = [op |-> "daily", trades |-> last.trades]
  /\ UNCHANGED <<scope, clock, ledger, accountCache, mu, pc>>

(* a call of GetPnLSummary() after it *)
Summary ==
  /\ last.op = "daily"
  /\ last' = [op |-> "summary", summary |-> GetPnLSummary(dailyPnL)]
  /\ UNCHANGED <<scope, clock, ledger, accountCache, dailyPnL, selected, mu, pc>>

NextDaily == CalculateDaily \/ Summary

SpecDaily == InitDaily /\ [][NextDaily]_vars

(* the calendar date of a timestamp in UTC, by its number since the epoch *)
UTCDate(t) == t \div Day

(* C19, as stated: whatever the zone of the process, every trade is counted
   under the calendar date of its timestamp in UTC: the table has a record for
   exactly the UTC dates of the trades, each counting the trades of that UTC
   date, so that two trades are in one record if and only if their timestamps
   are in one UTC day. *)
C19_Original ==
  last.op = "daily" =>
    /\ DOMAIN dailyPnL = {UTCDate(selected[i].time) : i \in 1..Len(selected)}
    /\ \A d \in DOMAIN dailyPnL :
         dailyPnL[d].tradeCount =
           Cardinality({i \in 1..Len(selected) : UTCDate(selected[i].time) = d})
    /\ \A i, j \in 1..Len(selected) :
         DateKey(selected[i].time) = DateKey(selected[j].time)
           <=> UTCDate(selected[i].time) = UTCDate(selected[j].time)

(* the sum of the day P&L of the table's dates up to date d *)
DayPnLUpTo(table, d) ==
  LET dates == {e \in DOMAIN table : e <= d}
  IN  SumOver(dates, [e \in dates |-> table[e].dailyPnL])

(* C20: in the summary GetPnLSummary returns, the cumulative P&L of a date is
   the sum of the day P&L of that date and of every earlier date of the table;
   every date of the table has its record. *)
C20_CumulativeIsRunningSum ==
  last.op = "summary" =>
    /\ {last.summary.dailyRecords[i].date : i \in 1..Len(last.summary.dailyRecords)}
         = DOMAIN dailyPnL
    /\ \A i \in 1..Len(last.summary.dailyRecords) :
         LET record == last.summary.dailyRecords[i]
         IN  /\ record.dailyPnL = dailyPnL[record.date].dailyPnL
             /\ record.cumulativePnL = DayPnLUpTo(dailyPnL, record.date)

(* three consecutive days with day P&L +2, +1, +2: cumulative 2, 3, 5, newest
   first in the summary *)
C20_Witness ==
  /\ last.op = "summary"
  /\ Len(last.summary.dailyRecords) = 3
  /\ last.summary.dailyRecords[3].dailyPnL = 2 /\ last.summary.dailyRecords[3].cumulativePnL = 2
  /\ last.summary.dailyRecords[2].dailyPnL = 1 /\ last.summary.dailyRecords[2].cumulativePnL = 3
  /\ last.summary.dailyRecords[1].dailyPnL = 2 /\ last.summary.dailyRecords[1].cumulativePnL = 5
  /\ last.summary.dailyRecords[1].date = last.summary.dailyRecords[3].date + 2

(* the newest date of a table *)
NewestDate(table) == CHOOSE d \in DOMAIN table : \A e \in DOMAIN table : e <= d

(* C21: in the summary GetPnLSummary returns, totalPnL is the sum of the day P&L
   of all the table's dates and, when the table has a date, the cumulative P&L
   of the record of the newest date. *)
C21_TotalIsSumOfDays ==
  last.op = "summary" =>
    /\ last.summary.totalPnL = SumOver(DOMAIN dailyPnL, [d \in DOMAIN dailyPnL |-> dailyPnL[d].dailyPnL])
    /\ DOMAIN dailyPnL # {} =>
         \E i \in 1..Len(last.summary.dailyRecords) :
           /\ last.summary.dailyRecords[i].date = NewestDate(dailyPnL)
           /\ last.summary.dailyRecords[i].cumulativePnL = last.summary.totalPnL

(* a gain on one day and a loss on the next: the total is neither day's P&L *)
C21_Witness ==
  /\ last.op = "summary"
  /\ Len(last.summary.dailyRecords) = 2
  /\ last.summary.dailyRecords[2].dailyPnL = 2
  /\ last.summary.dailyRecords[1].dailyPnL = -1
  /\ last.summary.totalPnL = 1

(* C22: dailyRecords is in strictly descending order of date, the newest date
   first, and holds one record for each date of the table and no other. *)
C22_NewestFirstOnePerDate ==
  last.op = "summary" =>
    LET records == last.summary.dailyRecords
    IN  /\ \A i \in 1..(Len(records) - 1) : records[i].date > records[i + 1].date
        /\ {records[i].date : i \in 1..Len(records)} = DOMAIN dailyPnL
        /\ Len(records) = Cardinality(DOMAIN dailyPnL)
        /\ \A i \in 1..Len(records) :
             /\ records[i].tradeCount = dailyPnL[records[i].date].tradeCount
             /\ records[i].dailyPnL = dailyPnL[records[i].date].dailyPnL

(* a table of two dates that are not consecutive, the newer one with two trades *)
C22_Witness ==
  /\ last.op = "summary"
  /\ Len(last.summary.dailyRecords) = 2
  /\ last.summary.dailyRecords[1].date = 2
  /\ last.summary.dailyRecords[2].date = 0
  /\ last.summary.dailyRecords[1].tradeCount = 2

(* C23: when the trade list the table was last built from is empty (none was
   given yet, or the last successful reconcile selected no trade), the table
   has no record once the reconcile is through with it, and a summary read then
   has no record and a totalPnL of 0. *)
C23_EmptySelectionEmptyTable ==
  selected = <<>> =>
    /\ (\A g \in Goroutines : pc[g].at # "build") => dailyPnL = <<>>
    /\ \A g \in Goroutines :
         pc[g].at = "runlock" =>
           /\ pc[g].saw = <<>>
           /\ pc[g].summary.dailyRecords = <<>>
           /\ pc[g].summary.totalPnL = 0

(* a summary read after a reconcile that selected no trade (of 0xb, which has
   no fill) came after one that had filled the table (of 0xa) *)
C23_Witness ==
  /\ selected = <<>>
  /\ accountCache["0xa"].exists /\ accountCache["0xa"].trades # <<>>
  /\ accountCache["0xb"].exists
  /\ \E g \in Goroutines : pc[g].at = "runlock" /\ pc[g].summary.totalPnL = 0

----------------------------------------------------------------------------
(* The pagination loop, seen in the requests of the last FetchTradesInRange call *)

(* the fills of the batches that requests 1..n returned, in the order received *)
RECURSIVE FillsUpTo(_, _)
FillsUpTo(requests, n) ==
  IF n = 0 THEN <<>> ELSE FillsUpTo(requests, n - 1) \o requests[n].fills

(* the trades of the fills that convert, in the fills' order *)
ParsedOf(fills) ==
  LET good == SelectSeq(fills, LAMBDA f : convertFillOk(f))
  IN  [i \in 1..Len(good) |-> convertFillToTrade(good[i])]

(* s ends with t *)
EndsWith(s, t) == Len(t) <= Len(s) /\ SubSeq(s, Len(s) - Len(t) + 1, Len(s)) = t

(* C24: of the batches one FetchTradesInRange call receives, an empty one is the
   last (the loop stops), one with fewer fills than MaxTradesPerBatch is the last
   and its fills that convert end the returned list, and a full one is followed by
   a request whose startTime is the time of the batch's last fill plus one and
   whose endTime is the same. *)
C24_PaginationSteps ==
  last.op = "fetch" =>
    \A i \in 1..Len(last.requests) :
      LET r      == last.requests[i]
          isLast == i = Len(last.requests)
      IN  r.ok =>
            /\ Len(r.fills) = 0 => isLast
            /\ (0 < Len(r.fills) /\ Len(r.fills) < MaxTradesPerBatch) =>
                 isLast /\ EndsWith(last.fetched, ParsedOf(r.fills))
            /\ Len(r.fills) >= MaxTradesPerBatch =>
                 /\ ~isLast
                 /\ last.requests[i + 1].startTime = r.fills[Len(r.fills)].time + 1
                 /\ last.requests[i + 1].endTime = r.endTime

(* a full batch whose last fill is of tick 0, then a request from tick 1 that
   brings a short batch *)
C24_Witness ==
  /\ last.op = "fetch" /\ last.sourceOk
  /\ Len(last.requests) = 2
  /\ Len(last.requests[1].fills) = MaxTradesPerBatch
  /\ last.requests[1].fills[MaxTradesPerBatch].time = 0
  /\ last.requests[2].startTime = 1
  /\ Len(last.requests[2].fills) = 1
  /\ Len(last.fetched) = 3

(* C25: when a batch is full and the venue has no fill between the next cursor
   and the end time (the full batch was the venue's last page), the call makes
   one request more and no further one; when that request returns, it returns
   no fill, and the call succeeds with the converted fills of the batches before
   it. *)
C25_OneExtraRequestAfterFullLastPage ==
  last.op = "fetch" =>
    \A i \in 1..Len(last.requests) :
      LET r == last.requests[i]
      IN  ( /\ r.ok
            /\ Len(r.fills) = MaxTradesPerBatch
            /\ fetchBatch(last.address, r.fills[Len(r.fills)].time + 1, r.endTime) = <<>> ) =>
            /\ Len(last.requests) = i + 1
            /\ last.requests[i + 1].ok =>
                 /\ last.requests[i + 1].fills = <<>>
                 /\ last.sourceOk
                 /\ last.fetched = ParsedOf(FillsUpTo(last.requests, i))

(* the venue's two fills fill one page: a second request returns nothing and
   the call returns the two trades *)
C25_Witness ==
  /\ last.op = "fetch" /\ last.sourceOk
  /\ Len(ledger) = MaxTradesPerBatch
  /\ Len(last.requests) = 2
  /\ Len(last.requests[1].fills) = MaxTradesPerBatch
  /\ last.requests[2].ok /\ last.requests[2].fills = <<>>
  /\ Len(last.fetched) = MaxTradesPerBatch

(* C26: in one FetchTradesInRange call no pacing delay is slept before the first
   request, and before every later request exactly one is, in the pass of the
   loop that follows the response to the request before. *)
C26_DelayBetweenRequests ==
  last.op = "fetch" =>
    \A i \in 1..Len(last.requests) :
      /\ last.requests[i].delays = (IF i = 1 THEN 0 ELSE 1)
      /\ i > 1 => last.requests[i - 1].ok

(* a call of two requests, of which the second, made after one delay, fails *)
C26_Witness ==
  /\ last.op = "fetch" /\ ~last.sourceOk
  /\ Len(last.requests) = 2
  /\ last.requests[1].delays = 0
  /\ last.requests[2].delays = 1
  /\ ~last.requests[2].ok

(* C27: a call none of whose requests fails succeeds, and returns the trade of
   every fill that converts of every batch it received, in the order received;
   a fill that does not convert takes no other fill with it. *)
C27_BadFillDroppedOnly ==
  (last.op = "fetch" /\ \A i \in 1..Len(last.requests) : last.requests[i].ok) =>
    /\ last.sourceOk
    /\ last.fetched = ParsedOf(FillsUpTo(last.requests, Len(last.requests)))

(* a first batch whose first fill does not convert and whose second does, and
   a second batch with a fill that converts: both good fills are returned *)
C27_Witness ==
  /\ last.op = "fetch" /\ last.sourceOk
  /\ Len(last.requests) = 2
  /\ Len(last.requests[1].fills) = 2
  /\ ~convertFillOk(last.requests[1].fills[1])
  /\ convertFillOk(last.requests[1].fills[2])
  /\ Len(last.requests[2].fills) = 1
  /\ Len(last.fetched) = 2

----------------------------------------------------------------------------
(* FetchTradesInRange against a venue that lists a response's fills in either
   order *)

Arrangements == {"oldestFirst", "newestFirst"}

InitArranged ==
  /\ scope \in {[FetchOnly EXCEPT !.arrange = a] : a \in Arrangements}
  /\ clock = MaxFillTime
  /\ ledger \in {l \in Ledgers(MaxFetchFills) : IsOldestFirst(l)}
  /\ accountCache = [a \in Accounts |-> NoCache]
  /\ dailyPnL = <<>>
  /\ selected = <<>>
  /\ last = Idle
  /\ Sequential

SpecArranged == InitArranged /\ [][NextFetch]_vars

(* C28, as stated: whichever way the venue arranges the fills of a response,
   the trades a successful FetchTradesInRange call returns are in ascending
   order of time. *)
C28_Original ==
  (last.op = "fetch" /\ last.sourceOk) => IsTimeOrdered(last.fetched)

(* C29: a FetchAndReconcile(address, days) call, whatever its branch and whether
   it returns nil or an error, leaves the cache entry of every other account as
   it was (trades, lastFetchTime, cachedDays); and no step takes an entry out of
   the store. *)
C29_OtherEntriesUntouched ==
  [][ /\ last'.op = "reconcile" =>
           \A a \in Accounts \ {last'.address} : accountCache'[a] = accountCache[a]
      /\ \A a \in Accounts : accountCache[a].exists => accountCache'[a].exists ]_vars

(* 0xb is reconciled again, with success, while 0xa has an entry with a trade *)
C29_Witness ==
  /\ last.op = "reconcile" /\ last.address = "0xb" /\ last.pre.exists
  /\ accountCache["0xa"].exists /\ accountCache["0xa"].trades # <<>>
  /\ accountCache["0xb"].exists /\ accountCache["0xb"].trades # <<>>

(* C30: after a FetchAndReconcile call that took the incremental branch and
   returned nil, the identities (time, coin, side) of the account's cached
   trades are those cached before the call together with those of the trades
   the call fetched: none is lost, and none comes from elsewhere. *)
C30_IncrementalKeepsIdentities ==
  [][(last'.op = "reconcile" /\ last'.branch = "incremental" /\ last'.ret = "nil")
       => Identities(accountCache'[last'.address].trades)
            = Identities(accountCache[last'.address].trades) \cup Identities(last'.fetched)]_vars

(* an incremental call fetched a trade, and the cache holds it beside a trade
   of an identity the call did not fetch *)
C30_Witness ==
  /\ last.op = "reconcile" /\ last.branch = "incremental" /\ last.ret = "nil"
  /\ last.fetched # <<>>
  /\ Identities(last.fetched) \subseteq Identities(accountCache[last.address].trades)
  /\ \E i \in 1..Len(accountCache[last.address].trades) :
       Identity(accountCache[last.address].trades[i]) \notin Identities(last.fetched)

----------------------------------------------------------------------------
(* Failed calls, the lock, and the fetch windows *)

(* C31: a FetchAndReconcile call that returns the Trade Source's error leaves
   the daily P&L table as it was, so the summary GetPnLSummary makes of the
   table after the call is the one it made before. *)
C31_FailureLeavesTable ==
  [][(last'.op = "reconcile" /\ last'.ret = "err")
       => /\ dailyPnL' = dailyPnL
          /\ GetPnLSummary(dailyPnL') = GetPnLSummary(dailyPnL)]_vars

(* a full fetch failed while the table had a record *)
C31_Witness ==
  /\ last.op = "reconcile" /\ last.ret = "err" /\ last.branch = "full"
  /\ dailyPnL # <<>>
  /\ GetPnLSummary(dailyPnL).dailyRecords # <<>>

(* the scheduler runs every goroutine that can take a step; every Trade Source
   call returns (the step ReconcileLocked is taken); and a Lock call that waits
   for the writer slot gets it after finitely many other writers, sync.Mutex
   handing the slot to a waiter that has waited long (starvation mode).  No
   request has to arrive: the two Call steps are under no condition. *)
Fairness ==
  \A g \in Goroutines :
    /\ SF_vars(Announce(g))
    /\ WF_vars(Lock(g))
    /\ WF_vars(\E failAt \in {0, 1} : ReconcileLocked(g, failAt))
    /\ WF_vars(PutRecord(g))
    /\ WF_vars(ReturnNil(g))
    /\ WF_vars(Unlock(g))
    /\ WF_vars(RLock(g))
    /\ WF_vars(ReadTable(g))
    /\ WF_vars(RUnlock(g))

(* the calls made are of one account and one number of days: whether a call
   proceeds does not depend on its arguments *)
InitLockLive ==
  /\ scope = [Concurrent EXCEPT !.users = {"0xa"}, !.days = {1}]
  /\ clock = Day + 1
  /\ ledger = <<Fill(Template("0xa", Buy, "1"), 0), Fill(Template("0xa", Sell, "2"), Day)>>
  /\ accountCache = [a \in Accounts |-> NoCache]
  /\ dailyPnL = <<>>
  /\ selected = <<>>
  /\ last = Idle
  /\ Sequential

SpecLockLive == InitLockLive /\ [][NextLock]_vars /\ Fairness

(* C32: a FetchAndReconcile call that has the write lock gives it up, whether it
   returns nil or an error, and so every call that waits in rs.mu.Lock() gets
   the write lock and every call that waits in rs.mu.RLock() gets the read
   lock, as long as every Trade Source call returns. *)
C32_LockReleasedWaitersProceed ==
  \A g \in Goroutines :
    /\ (pc[g].at = "locked") ~> (pc[g].at = "idle" /\ mu.writer # g)
    /\ (pc[g].at \in {"lock", "drain"}) ~> (pc[g].at = "locked")
    /\ (pc[g].at \in {"rlock", "rblocked"}) ~> (pc[g].at = "rlocked")

(* a reconcile is about to return an error under the write lock while a second
   reconcile waits in Lock and a summary call is blocked in RLock *)
C32_Witness ==
  \E g, h, k \in Goroutines :
    /\ pc[g].at = "unlock" /\ pc[g].ret = "err" /\ mu.writer = g
    /\ pc[h].at = "lock"
    /\ pc[k].at = "rblocked"

(* C33: the fetch windows of one account leave no gap.  An incremental call asks
   the Trade Source for the window that starts at the stored lastFetchTime and
   ends at now, with lastFetchTime <= now; a call that fails leaves lastFetchTime
   as it was; a call that succeeds leaves a lastFetchTime that is not earlier
   than before and not later than the end of the window it fetched.  So the
   window of each incremental call starts inside or at the end of the window
   of the successful call before it. *)
C33_WindowsLeaveNoGap ==
  [][last'.op = "reconcile"
       => LET before == accountCache[last'.address]
              after  == accountCache'[last'.address]
              asked  == last'.requests
          IN  /\ asked # <<>>
              /\ \A i \in 1..Len(asked) :
                   asked[i].endTime = asked[1].endTime /\ asked[i].startTime >= asked[1].startTime
              /\ last'.branch # "full" =>
                   /\ asked[1].startTime = before.lastFetchTime
                   /\ asked[1].endTime = last'.now
                   /\ before.lastFetchTime <= last'.now
              /\ last'.ret = "err" => after.lastFetchTime = before.lastFetchTime
              /\ last'.ret = "nil" =>
                   /\ after.lastFetchTime <= asked[1].endTime
                   /\ after.lastFetchTime >= asked[1].startTime
                   /\ after.lastFetchTime >= before.lastFetchTime]_vars

(* an incremental call made one tick after the fetch before it: its window
   starts at that fetch's time, a tick before now, and the call succeeds *)
C33_Witness ==
  /\ last.op = "reconcile" /\ last.branch = "incremental" /\ last.ret = "nil"
  /\ last.pre.lastFetchTime < last.now
  /\ last.requests[1].startTime = last.pre.lastFetchTime
  /\ accountCache[last.address].lastFetchTime = last.now

----------------------------------------------------------------------------
(* The trade counts of the table, and trades that are neither buys nor sells *)

(* C34: in the table calculateDailyPnLFromTrades builds, every trade of the list
   it was given is counted under one date, its own, and the tradeCount values
   add up to the length of the list. *)
C34_CountsAddUp ==
  last.op \in {"daily", "summary"} =>
    /\ \A i \in 1..Len(selected) :
         Cardinality({d \in DOMAIN dailyPnL : DateKey(selected[i].time) = d}) = 1
    /\ \A d \in DOMAIN dailyPnL :
         dailyPnL[d].tradeCount = Cardinality({i \in 1..Len(selected) : DateKey(selected[i].time) = d})
    /\ SumOver(DOMAIN dailyPnL, [d \in DOMAIN dailyPnL |-> dailyPnL[d].tradeCount]) = Len(selected)

(* three trades, two of one date and one of another *)
C34_Witness ==
  /\ last.op = "daily"
  /\ Len(selected) = 3
  /\ Cardinality(DOMAIN dailyPnL) = 2
  /\ \E d \in DOMAIN dailyPnL : dailyPnL[d].tradeCount = 2
  /\ \E d \in DOMAIN dailyPnL : dailyPnL[d].tradeCount = 1

(* a side the venue could report that is neither "B" nor "A" *)
Other == <<"X">>

SideKinds ==
  {[coin |-> BTC, side |-> Buy, px |-> "1"], [coin |-> BTC, side |-> Sell, px |-> "2"],
   [coin |-> BTC, side |-> Other, px |-> "1"]}

(* calculateDailyPnLFromTrades on lists that hold trades of the three sides *)
InitSides ==
  /\ scope \in {Daily(zone) : zone \in Zones}
  /\ clock = 0
  /\ ledger = <<>>
  /\ accountCache = [a \in Accounts |-> NoCache]
  /\ dailyPnL = <<>>
  /\ selected = <<>>
  /\ last \in {[op |-> "call", fn |-> "calculateDailyPnLFromTrades", trades |-> trades] :
                 trades \in TradeLists(SideKinds, MaxDailyTrades)}
  /\ Sequential

SpecSides == InitSides /\ [][NextDaily]_vars

(* the trades of a list made on date d *)
TradesOn(trades, d) == {i \in 1..Len(trades) : DateKey(trades[i].time) = d}

(* C35: a trade whose side is neither "B" nor "A" is counted in the tradeCount
   of its date and adds nothing to the date's P&L: the P&L is the sells' value
   minus the buys' value, whatever other trades the date has. *)
C35_OtherSideCountedNotValued ==
  last.op \in {"daily", "summary"} =>
    \A d \in DOMAIN dailyPnL :
      LET on    == TradesOn(selected, d)
          sells == {i \in on : selected[i].side = Sell}
          buys  == {i \in on : selected[i].side = Buy}
      IN  /\ dailyPnL[d].tradeCount = Cardinality(on)
          /\ dailyPnL[d].dailyPnL =
               SumOver(sells, [i \in sells |-> selected[i].value])
                 - SumOver(buys, [i \in buys |-> selected[i].value])

(* a date with a sell of value 2 and a trade of the other side: two trades
   counted, a P&L of 2 *)
C35_Witness ==
  /\ last.op = "daily"
  /\ \E d \in DOMAIN dailyPnL :
       /\ dailyPnL[d].tradeCount = 2
       /\ dailyPnL[d].dailyPnL = 2
       /\ \E i \in TradesOn(selected, d) : selected[i].side = Other

----------------------------------------------------------------------------
(* The cursor of the pagination loop, failed requests, and batches with fills
   that do not convert *)

(* what the venue answers one request with: at most MaxTradesPerBatch fills, all
   timed inside the request's window, the last of them the latest *)
WellAnswered(r) ==
  /\ Len(r.fills) <= MaxTradesPerBatch
  /\ \A j \in 1..Len(r.fills) :
       /\ r.fills[j].time >= r.startTime /\ r.fills[j].time <= r.endTime
       /\ r.fills[j].time <= r.fills[Len(r.fills)].time

(* the fills the venue holds for the address in the window *)
InWindow(address, start, end) ==
  SelectSeq(ledger, LAMBDA f : f.user = address /\ f.time >= start /\ f.time <= end)

(* C36: when the venue answers every request with at most MaxTradesPerBatch
   fills of the request's window, the latest last, the startTime of each request
   of a FetchTradesInRange call is greater than that of the request before, and
   the call ends: it makes at most one request for every full page of the fills
   the window holds, and one more. *)
C36_CursorAdvancesCallEnds ==
  (last.op = "fetch" /\ \A i \in 1..Len(last.requests) : WellAnswered(last.requests[i])) =>
    /\ \A i \in 1..(Len(last.requests) - 1) :
         last.requests[i + 1].startTime > last.requests[i].startTime
    /\ Len(last.requests) <=
         Len(InWindow(last.address, last.requests[1].startTime, last.requests[1].endTime))
           \div MaxTradesPerBatch + 1

(* a cursor that goes from tick 0 to tick 2 after a page with fills of ticks 0
   and 1 *)
C36_Witness ==
  /\ last.op = "fetch" /\ last.sourceOk
  /\ Len(last.requests) = 2
  /\ WellAnswered(last.requests[1])
  /\ last.requests[1].startTime = 0
  /\ last.requests[1].fills[1].time = 0
  /\ last.requests[2].startTime = 2

(* C37: when a request of the pagination loop fails, FetchTradesInRange returns
   the error and no trade, those of the batches fetched before it included, and
   FetchAndReconcile returns the error with every cache entry and the selected
   trades as they were. *)
C37_NoPartialResult ==
  [][(last'.op = "reconcile" /\ \E i \in 1..Len(last'.requests) : ~last'.requests[i].ok)
       => /\ last'.ret = "err"
          /\ ~last'.sourceOk
          /\ last'.fetched = <<>>
          /\ accountCache' = accountCache
          /\ selected' = selected]_vars

(* the second request of a call failed after a first batch whose fills convert,
   and the account has no cached trade *)
C37_Witness ==
  /\ last.op = "reconcile" /\ last.ret = "err"
  /\ Len(last.requests) = 2
  /\ last.requests[1].ok /\ ParsedOf(last.requests[1].fills) # <<>>
  /\ ~last.requests[2].ok
  /\ accountCache[last.address].trades = <<>>

(* C38: a batch of MaxTradesPerBatch fills of which some do not convert is
   followed by a request all the same, and that request starts at the time of
   the batch's last fill plus one, also when the last fill is one that was
   dropped. *)
C38_RawBatchDecides ==
  last.op = "fetch" =>
    \A i \in 1..Len(last.requests) :
      LET r == last.requests[i]
      IN  (r.ok /\ Len(r.fills) = MaxTradesPerBatch /\ Len(ParsedOf(r.fills)) < MaxTradesPerBatch) =>
            /\ i < Len(last.requests)
            /\ last.requests[i + 1].startTime = r.fills[MaxTradesPerBatch].time + 1

(* a full batch whose last fill, of tick 1, does not convert and whose first,
   of tick 0, does: the next request starts at tick 2 *)
C38_Witness ==
  /\ last.op = "fetch"
  /\ Len(last.requests) = 2
  /\ Len(last.requests[1].fills) = MaxTradesPerBatch
  /\ convertFillOk(last.requests[1].fills[1])
  /\ last.requests[1].fills[1].time = 0
  /\ ~convertFillOk(last.requests[1].fills[MaxTradesPerBatch])
  /\ last.requests[1].fills[MaxTradesPerBatch].time = 1
  /\ last.requests[2].startTime = 2

----------------------------------------------------------------------------
(* mergeTrades on coins whose names hold the key's separator *)

(* coins named X, X_B and X_: with the sides, the texts the key of a trade of
   coin X could be taken for the key of *)
CoinX == <<"X">>

CoinXB == <<"X", "_", "B">>

CoinXSep == <<"X", "_">>

KeyKinds ==
  {[coin |-> CoinX, side |-> Buy, px |-> "1"], [coin |-> CoinXB, side |-> Buy, px |-> "1"],
   [coin |-> CoinXSep, side |-> Sell, px |-> "2"]}

InitKeys ==
  /\ scope = Functions
  /\ clock = 0
  /\ ledger = <<>>
  /\ accountCache = [a \in Accounts |-> NoCache]
  /\ dailyPnL = <<>>
  /\ selected = <<>>
  /\ last \in {[op |-> "call", fn |-> "mergeTrades", existing |-> existing, new |-> new] :
                 existing \in TradeLists(KeyKinds, MaxExisting), new \in TradeLists(KeyKinds, MaxNew)}
  /\ Sequential

SpecKeys == InitKeys /\ [][MergeTrades]_vars

(* C39: for trades whose sides are "B" or "A", mergeTrades returns one trade for
   every identity (time, coin, side) of its two lists and no other trade, two
   identities never falling into one, also when a coin's name holds the
   separator "_" of the key. *)
C39_IdentitiesKeptApart ==
  last.op = "merge" =>
    /\ Identities(last.merged) = Identities(last.existing) \cup Identities(last.new)
    /\ Len(last.merged) = Cardinality(Identities(last.existing) \cup Identities(last.new))
    /\ \A i, j \in 1..Len(last.merged) :
         TradeKey(last.merged[i]) = TradeKey(last.merged[j]) => i = j

(* a buy of X, a buy of X_B and a sell of X_ made at one time are merged and
   all three are kept *)
C39_Witness ==
  /\ last.op = "merge"
  /\ last.new # <<>>
  /\ Len(last.merged) = 3
  /\ \A i \in 1..3 : last.merged[i].time = 0
  /\ {last.merged[i].coin : i \in 1..3} = {CoinX, CoinXB, CoinXSep}

====
